---- MODULE Spec2Model ----
(***************************************************************************)
(* Model of tauri-app/src-tauri/src/claude_code_commands.rs: the store of  *)
(* MCP server entries kept in ~/.claude.json (natively and, on Windows,    *)
(* inside a WSL distribution).                                             *)
(*                                                                         *)
(* A file is modelled by what serde_json sees of it: absent, bytes that    *)
(* are not UTF-8 (fs::read_to_string fails), text that is not JSON         *)
(* (serde_json::from_str fails) or a serde_json::Value.  A Value is a      *)
(* tagged record; an object is a function from its keys to Values (the     *)
(* serde_json Map: one value per key).                                     *)
(***************************************************************************)
EXTENDS Integers, Sequences, FiniteSets, TLC

VARIABLES windows, home, fs, bak, now, ops, faults, last, calls, kept

vars == <<windows, home, fs, bak, now, ops, faults, last, calls, kept>>

(***************************************************************************)
(* Bounds of the model.                                                    *)
(***************************************************************************)
MaxOps == 2
MaxFaults == 1
MaxTime == 1

(***************************************************************************)
(* Scope identifiers (lines 9-14) and the strings of the model.            *)
(***************************************************************************)
GLOBAL_WINDOWS_ID == "Global (Windows)"
GLOBAL_WSL_ID == "Global (WSL)"
GLOBAL_PROJECT_ID == "Global"

ProjLinux == "/home/u/proj"
ProjLinux2 == "/srv/app"
ProjWin == "C:/proj"

WorkingDirs == {GLOBAL_WINDOWS_ID, GLOBAL_WSL_ID, GLOBAL_PROJECT_ID, ProjLinux, ProjWin}
Names == {"airtable", "sentry"}

\* The first character of each working directory of the model.
FirstChar(s) ==
  CASE s \in {ProjLinux, ProjLinux2} -> "/"
    [] s = ProjWin -> "C"
    [] s \in {GLOBAL_WINDOWS_ID, GLOBAL_WSL_ID, GLOBAL_PROJECT_ID} -> "G"
    [] OTHER -> ""

\* Byte-wise (String::cmp) order of the strings used as keys:
\* '/' < 'C' < 'a' < 's' < 'z'.
StrRank(s) ==
  CASE s = ProjLinux -> 1
    [] s = ProjLinux2 -> 2
    [] s = ProjWin -> 3
    [] s = "airtable" -> 4
    [] s = "sentry" -> 5
    [] s = "zed" -> 6
    [] OTHER -> 7

\* The keys of S in ascending order (BTreeMap iteration, Vec::sort).
RECURSIVE SortedSeq(_)
SortedSeq(S) ==
  IF S = {} THEN <<>>
  ELSE LET m == CHOOSE x \in S : \A y \in S : StrRank(x) <= StrRank(y)
       IN <<m>> \o SortedSeq(S \ {m})

(***************************************************************************)
(* serde_json::Value.                                                      *)
(***************************************************************************)
JNull == [t |-> "null"]
JNum == [t |-> "num"]
JStr(s) == [t |-> "str", s |-> s]
JArr(a) == [t |-> "arr", a |-> a]
JObj(o) == [t |-> "obj", o |-> o]
EmptyObj == JObj(<<>>)

\* Option<T>
None == [some |-> FALSE]
Some(x) == [some |-> TRUE, v |-> x]

\* Result<T, String>
Ok(x) == [ok |-> TRUE, v |-> x]
Err(m) == [ok |-> FALSE, err |-> m]

is_object(v) == v.t = "obj"

\* Value::get(&str): None unless v is an object holding the key.
JGet(v, k) == IF is_object(v) /\ k \in DOMAIN v.o THEN Some(v.o[k]) ELSE None

\* Index<&str> for Value (read): Null unless v is an object holding the key.
JIndex(v, k) == IF is_object(v) /\ k \in DOMAIN v.o THEN v.o[k] ELSE JNull

\* Map::insert
MapPut(o, k, x) == [j \in DOMAIN o \cup {k} |-> IF j = k THEN x ELSE o[j]]

\* Map::remove
MapDel(o, k) == [j \in DOMAIN o \ {k} |-> o[j]]

Panic == [t |-> "panic"]

\* IndexMut<&str> for Value (write): Null becomes an object, an object takes
\* the key, any other Value panics.
JSet(v, k, x) ==
  CASE v.t = "null" -> JObj(MapPut(<<>>, k, x))
    [] v.t = "obj" -> JObj(MapPut(v.o, k, x))
    [] OTHER -> Panic

\* Option<&Value>::and_then(as_str)
AsStr(opt) == IF opt.some /\ opt.v.t = "str" THEN Some(opt.v.s) ELSE None

(***************************************************************************)
(* ClaudeCodeServer (lines 23-31) and its two conversions.                 *)
(***************************************************************************)
Server(name, type, url, command, args, env) ==
  [name |-> name, type |-> type, url |-> url, command |-> command,
   args |-> args, env |-> env]

StrsOf(a) == LET strs == SelectSeq(a, LAMBDA v : v.t = "str")
             IN [i \in 1..Len(strs) |-> strs[i].s]

StrMapOf(o) == [k \in {j \in DOMAIN o : o[j].t = "str"} |-> o[k].s]

parse_server_config(name, config) ==
  LET ty == AsStr(JGet(config, "type"))
      args == JGet(config, "args")
      env == JGet(config, "env")
  IN Server(name,
            IF ty.some THEN ty.v ELSE "stdio",
            AsStr(JGet(config, "url")),
            AsStr(JGet(config, "command")),
            IF args.some /\ args.v.t = "arr" THEN Some(StrsOf(args.v.a)) ELSE None,
            IF env.some /\ env.v.t = "obj" THEN Some(StrMapOf(env.v.o)) ELSE None)

\* Mutant: the env of the request is not written.
server_to_json_without_env(server) ==
  LET keys == {"type"}
              \cup (IF server.url.some THEN {"url"} ELSE {})
              \cup (IF server.command.some THEN {"command"} ELSE {})
              \cup (IF server.args.some THEN {"args"} ELSE {})
  IN JObj([k \in keys |->
            CASE k = "type" -> JStr(server.type)
              [] k = "url" -> JStr(server.url.v)
              [] k = "command" -> JStr(server.command.v)
              [] k = "args" -> JArr([i \in 1..Len(server.args.v) |-> JStr(server.args.v[i])])])

server_to_json(server) ==
  LET keys == {"type"}
              \cup (IF server.url.some THEN {"url"} ELSE {})
              \cup (IF server.command.some THEN {"command"} ELSE {})
              \cup (IF server.args.some THEN {"args"} ELSE {})
              \cup (IF server.env.some THEN {"env"} ELSE {})
  IN JObj([k \in keys |->
            CASE k = "type" -> JStr(server.type)
              [] k = "url" -> JStr(server.url.v)
              [] k = "command" -> JStr(server.command.v)
              [] k = "args" -> JArr([i \in 1..Len(server.args.v) |-> JStr(server.args.v[i])])
              [] k = "env" -> JObj([e \in DOMAIN server.env.v |-> JStr(server.env.v[e])])])

(***************************************************************************)
(* Error and response messages.  A message is a record: its fixed text and *)
(* the values format! puts into it (the text of an OS error is left out).  *)
(***************************************************************************)
Msg(text) == [msg |-> text]
MsgName(text, name) == [msg |-> text, name |-> name]
MsgScope(text, name, scope) == [msg |-> text, name |-> name, scope |-> scope]

\* A panic is no Result: the call does not return.
Aborted == [ok |-> FALSE, err |-> [msg |-> "", panic |-> TRUE]]

(***************************************************************************)
(* Files.  fs maps the two candidate documents to their content; bak maps  *)
(* every backup path (a document and the second it was taken in) to its    *)
(* content.                                                                *)
(***************************************************************************)
NoFile == [k |-> "none"]
Bytes == [k |-> "bytes"]
Text(s) == [k |-> "text", s |-> s]
Json(v) == [k |-> "json", v |-> v]

Docs == {"native", "wsl"}
BakPaths == Docs \X (0..MaxTime)

exists(f, path) == f[path].k # "none"

\* fs::read_to_string followed by serde_json::from_str, as every caller does.
read_config(f, path) ==
  CASE f[path].k = "json" -> Ok(f[path].v)
    [] f[path].k = "text" -> Err(Msg("Failed to parse Claude config"))
    [] OTHER -> Err(Msg("Failed to read Claude config"))

\* Mutant: a successful write is mirrored into every document that exists.
fs_write_mirrored(f, path, config, outcome) ==
  CASE outcome = "ok" ->
         [fs |-> [d \in DOMAIN f |->
                   IF d = path \/ f[d].k # "none" THEN Json(config) ELSE f[d]],
          ok |-> TRUE]
    [] outcome = "clean" -> [fs |-> f, ok |-> FALSE]
    [] OTHER -> [fs |-> [f EXCEPT ![path] = Text("truncated")], ok |-> FALSE]

\* fs::write of the pretty-printed config.  outcome is "ok", "clean" (the write
\* fails before the file is touched) or "torn" (it fails after truncating it).
fs_write(f, path, config, outcome) ==
  CASE outcome = "ok" -> [fs |-> [f EXCEPT ![path] = Json(config)], ok |-> TRUE]
    [] outcome = "clean" -> [fs |-> f, ok |-> FALSE]
    [] OTHER -> [fs |-> [f EXCEPT ![path] = Text("truncated")], ok |-> FALSE]

\* Mutant: the backup is not removed.
remove_file_kept(b, bpath) == b

\* fs::remove_file of a backup
remove_file(b, bpath) == [b EXCEPT ![bpath] = NoFile]

(***************************************************************************)
(* Scope predicates and path resolution.                                   *)
(***************************************************************************)
is_global_config(wd) ==
  wd = GLOBAL_PROJECT_ID \/ wd = GLOBAL_WINDOWS_ID \/ wd = GLOBAL_WSL_ID

is_windows_global(wd) == wd = GLOBAL_WINDOWS_ID

is_wsl_global(wd) == wd = GLOBAL_WSL_ID

is_linux_path(path) == FirstChar(path) = "/"

get_windows_config_path ==
  IF home THEN Ok("native") ELSE Err(Msg("Unable to find home directory"))

\* cfg(windows): the first .claude.json found under a WSL home; otherwise None.
get_wsl_config_path(f) ==
  IF windows /\ exists(f, "wsl") THEN Some("wsl") ELSE None

\* Mutant: a project path is resolved like the legacy sentinel, whatever
\* its format.
get_claude_config_path_by_existence(f, wd) ==
  LET wsl == get_wsl_config_path(f)
      native == get_windows_config_path
  IN IF is_windows_global(wd) THEN get_windows_config_path
     ELSE IF is_wsl_global(wd) THEN
       IF windows
       THEN IF wsl.some THEN Ok(wsl.v) ELSE Err(Msg("WSL Claude config not found"))
       ELSE Err(Msg("WSL is only available on Windows"))
     ELSE IF ~native.ok THEN native
     ELSE IF exists(f, native.v) THEN native
     ELSE IF windows /\ wsl.some THEN Ok(wsl.v)
     ELSE native

\* Mutant: the legacy sentinel is the native document whatever exists.
get_claude_config_path_native_only(f, wd) ==
  LET wsl == get_wsl_config_path(f)
  IN IF is_windows_global(wd) \/ wd = GLOBAL_PROJECT_ID THEN get_windows_config_path
     ELSE IF is_wsl_global(wd) THEN
       IF windows
       THEN IF wsl.some THEN Ok(wsl.v) ELSE Err(Msg("WSL Claude config not found"))
       ELSE Err(Msg("WSL is only available on Windows"))
     ELSE IF windows /\ is_linux_path(wd) /\ wsl.some THEN Ok(wsl.v)
     ELSE get_windows_config_path

\* Mutant: the fallback looks for a WSL document before the native one.
get_claude_config_path_wsl_first(f, wd) ==
  LET wsl == get_wsl_config_path(f)
      native == get_windows_config_path
  IN IF is_windows_global(wd) THEN get_windows_config_path
     ELSE IF is_wsl_global(wd) THEN
       IF windows
       THEN IF wsl.some THEN Ok(wsl.v) ELSE Err(Msg("WSL Claude config not found"))
       ELSE Err(Msg("WSL is only available on Windows"))
     ELSE IF windows /\ wd # "" /\ ~is_global_config(wd) /\ is_linux_path(wd) /\ wsl.some
       THEN Ok(wsl.v)
     ELSE IF windows /\ wd # "" /\ ~is_global_config(wd) /\ ~is_linux_path(wd)
       THEN get_windows_config_path
     ELSE IF ~native.ok THEN native
     ELSE IF windows /\ wsl.some THEN Ok(wsl.v)
     ELSE native

\* Mutant: off Windows the WSL sentinel is resolved like the legacy one.
get_claude_config_path_wsl_lenient(f, wd) ==
  LET wsl == get_wsl_config_path(f)
      native == get_windows_config_path
  IN IF is_windows_global(wd) THEN get_windows_config_path
     ELSE IF is_wsl_global(wd) /\ windows THEN
       IF wsl.some THEN Ok(wsl.v) ELSE Err(Msg("WSL Claude config not found"))
     ELSE IF windows /\ wd # "" /\ ~is_global_config(wd) /\ is_linux_path(wd) /\ wsl.some
       THEN Ok(wsl.v)
     ELSE IF windows /\ wd # "" /\ ~is_global_config(wd) /\ ~is_linux_path(wd)
       THEN get_windows_config_path
     ELSE IF ~native.ok THEN native
     ELSE IF exists(f, native.v) THEN native
     ELSE IF windows /\ wsl.some THEN Ok(wsl.v)
     ELSE native

get_claude_config_path(f, wd) ==
  LET wsl == get_wsl_config_path(f)
      native == get_windows_config_path
  IN IF is_windows_global(wd) THEN get_windows_config_path
     ELSE IF is_wsl_global(wd) THEN
       IF windows
       THEN IF wsl.some THEN Ok(wsl.v) ELSE Err(Msg("WSL Claude config not found"))
       ELSE Err(Msg("WSL is only available on Windows"))
     ELSE IF windows /\ wd # "" /\ ~is_global_config(wd) /\ is_linux_path(wd) /\ wsl.some
       THEN Ok(wsl.v)
     ELSE IF windows /\ wd # "" /\ ~is_global_config(wd) /\ ~is_linux_path(wd)
       THEN get_windows_config_path
     ELSE IF ~native.ok THEN native
     ELSE IF exists(f, native.v) THEN native
     ELSE IF windows /\ wsl.some THEN Ok(wsl.v)
     ELSE native

(***************************************************************************)
(* Backup and restore.                                                     *)
(***************************************************************************)
\* copied: whether fs::copy succeeds.
create_backup(f, b, t, path, copied) ==
  IF ~exists(f, path) THEN [bak |-> b, res |-> Err(Msg("Config file does not exist"))]
  ELSE IF ~copied THEN [bak |-> b, res |-> Err(Msg("Failed to create backup"))]
  ELSE [bak |-> [b EXCEPT ![<<path, t>>] = f[path]], res |-> Ok(<<path, t>>)]

\* Mutant: the backup is copied over the native document, whichever document
\* was being written.
restore_backup_onto_native(f, b, path, bpath, copied) ==
  IF b[bpath].k = "none" THEN [fs |-> f, res |-> Err(Msg("Backup file does not exist"))]
  ELSE IF ~copied THEN [fs |-> f, res |-> Err(Msg("Failed to restore backup"))]
  ELSE [fs |-> [f EXCEPT !["native"] = b[bpath]], res |-> Ok(TRUE)]

\* Mutant: the restore reports success and copies nothing.
restore_backup_skipped(f, b, path, bpath, copied) ==
  IF b[bpath].k = "none" THEN [fs |-> f, res |-> Err(Msg("Backup file does not exist"))]
  ELSE [fs |-> f, res |-> Ok(TRUE)]

restore_backup(f, b, path, bpath, copied) ==
  IF b[bpath].k = "none" THEN [fs |-> f, res |-> Err(Msg("Backup file does not exist"))]
  ELSE IF ~copied THEN [fs |-> f, res |-> Err(Msg("Failed to restore backup"))]
  ELSE [fs |-> [f EXCEPT ![path] = b[bpath]], res |-> Ok(TRUE)]

(***************************************************************************)
(* The in-memory changes of claude_mcp_add and claude_mcp_remove.          *)
(***************************************************************************)
\* config[k1][k2] = x and deeper: IndexMut at every level.
JSet2(v, k1, k2, x) == JSet(v, k1, JSet(JIndex(v, k1), k2, x))
JSet3(v, k1, k2, k3, x) == JSet(v, k1, JSet2(JIndex(v, k1), k2, k3, x))
JSet4(v, k1, k2, k3, k4, x) == JSet(v, k1, JSet3(JIndex(v, k1), k2, k3, k4, x))

\* Mutant: the project object is built anew around the entry.
add_entry_fresh_project(config, wd, name, server_json) ==
  IF is_global_config(wd)
  THEN LET c1 == IF ~is_object(JIndex(config, "mcpServers"))
                 THEN JSet(config, "mcpServers", EmptyObj) ELSE config
       IN IF c1 = Panic THEN Panic ELSE JSet2(c1, "mcpServers", name, server_json)
  ELSE LET c1 == IF ~is_object(JIndex(config, "projects"))
                 THEN JSet(config, "projects", EmptyObj) ELSE config
       IN IF c1 = Panic THEN Panic
          ELSE JSet2(c1, "projects", wd,
                     JObj([mcpServers |-> JObj(MapPut(<<>>, name, server_json))]))

\* Mutant: an entry that is already there is kept (insert if absent).
add_entry_if_absent(config, wd, name, server_json) ==
  IF is_global_config(wd)
  THEN LET c1 == IF ~is_object(JIndex(config, "mcpServers"))
                 THEN JSet(config, "mcpServers", EmptyObj) ELSE config
       IN IF c1 = Panic THEN Panic
          ELSE IF JGet(JIndex(c1, "mcpServers"), name).some THEN c1
          ELSE JSet2(c1, "mcpServers", name, server_json)
  ELSE LET c1 == IF ~is_object(JIndex(config, "projects"))
                 THEN JSet(config, "projects", EmptyObj) ELSE config
           c2 == IF ~is_object(JIndex(JIndex(c1, "projects"), wd))
                 THEN JSet2(c1, "projects", wd, JObj([mcpServers |-> EmptyObj])) ELSE c1
           c3 == IF ~is_object(JIndex(JIndex(JIndex(c2, "projects"), wd), "mcpServers"))
                 THEN JSet3(c2, "projects", wd, "mcpServers", EmptyObj) ELSE c2
       IN IF c1 = Panic THEN Panic
          ELSE IF JGet(JIndex(JIndex(JIndex(c3, "projects"), wd), "mcpServers"), name).some
          THEN c3
          ELSE JSet4(c3, "projects", wd, "mcpServers", name, server_json)

\* Mutant: a user-scope add also makes sure that a projects object is there.
add_entry_with_projects(config, wd, name, server_json) ==
  IF is_global_config(wd)
  THEN LET c0 == IF ~is_object(JIndex(config, "projects"))
                 THEN JSet(config, "projects", EmptyObj) ELSE config
           c1 == IF ~is_object(JIndex(c0, "mcpServers"))
                 THEN JSet(c0, "mcpServers", EmptyObj) ELSE c0
       IN IF c0 = Panic THEN Panic ELSE JSet2(c1, "mcpServers", name, server_json)
  ELSE LET c1 == IF ~is_object(JIndex(config, "projects"))
                 THEN JSet(config, "projects", EmptyObj) ELSE config
           c2 == IF ~is_object(JIndex(JIndex(c1, "projects"), wd))
                 THEN JSet2(c1, "projects", wd, JObj([mcpServers |-> EmptyObj])) ELSE c1
           c3 == IF ~is_object(JIndex(JIndex(JIndex(c2, "projects"), wd), "mcpServers"))
                 THEN JSet3(c2, "projects", wd, "mcpServers", EmptyObj) ELSE c2
       IN IF c1 = Panic THEN Panic
          ELSE JSet4(c3, "projects", wd, "mcpServers", name, server_json)

\* Mutant: the entry is put into a fresh document, not into the one read.
add_entry_alone(config, wd, name, server_json) ==
  IF is_global_config(wd)
  THEN JSet2(EmptyObj, "mcpServers", name, server_json)
  ELSE JSet4(EmptyObj, "projects", wd, "mcpServers", name, server_json)

\* Lines 130-148.  Panic when an IndexMut panics.
add_entry(config, wd, name, server_json) ==
  IF is_global_config(wd)
  THEN LET c1 == IF ~is_object(JIndex(config, "mcpServers"))
                 THEN JSet(config, "mcpServers", EmptyObj) ELSE config
       IN IF c1 = Panic THEN Panic ELSE JSet2(c1, "mcpServers", name, server_json)
  ELSE LET c1 == IF ~is_object(JIndex(config, "projects"))
                 THEN JSet(config, "projects", EmptyObj) ELSE config
           c2 == IF ~is_object(JIndex(JIndex(c1, "projects"), wd))
                 THEN JSet2(c1, "projects", wd, JObj([mcpServers |-> EmptyObj])) ELSE c1
           c3 == IF ~is_object(JIndex(JIndex(JIndex(c2, "projects"), wd), "mcpServers"))
                 THEN JSet3(c2, "projects", wd, "mcpServers", EmptyObj) ELSE c2
       IN IF c1 = Panic THEN Panic
          ELSE JSet4(c3, "projects", wd, "mcpServers", name, server_json)

\* Mutant: the entry is looked up and removed in the root map whatever the scope.
remove_entry_at_root(config, wd, name) ==
  LET ms == JGet(config, "mcpServers")
  IN IF ms.some /\ is_object(ms.v) /\ name \in DOMAIN ms.v.o
     THEN [found |-> TRUE,
           config |-> JSet(config, "mcpServers", JObj(MapDel(ms.v.o, name)))]
     ELSE [found |-> FALSE, config |-> config]

\* Lines 198-222: the config without the entry, and whether it was there.
remove_entry(config, wd, name) ==
  IF is_global_config(wd)
  THEN LET ms == JGet(config, "mcpServers")
       IN IF ms.some /\ is_object(ms.v) /\ name \in DOMAIN ms.v.o
          THEN [found |-> TRUE,
                config |-> JSet(config, "mcpServers", JObj(MapDel(ms.v.o, name)))]
          ELSE [found |-> FALSE, config |-> config]
  ELSE LET projects == JGet(config, "projects")
           project == IF projects.some THEN JGet(projects.v, wd) ELSE None
           ms == IF project.some THEN JGet(project.v, "mcpServers") ELSE None
       IN IF ms.some /\ is_object(ms.v) /\ name \in DOMAIN ms.v.o
          THEN [found |-> TRUE,
                config |-> JSet3(config, "projects", wd, "mcpServers",
                                 JObj(MapDel(ms.v.o, name)))]
          ELSE [found |-> FALSE, config |-> config]

\* Mutant: only the Windows sentinel counts as the user scope.
scope_word_windows_only(wd) == IF is_windows_global(wd) THEN "user" ELSE "project"

\* "user" or "project" in the messages of add and remove.
scope_word(wd) == IF is_global_config(wd) THEN "user" ELSE "project"

(***************************************************************************)
(* The commands, as functions of the files.                                *)
(***************************************************************************)
\* Mutant: an entry whose value is no object is left out.
servers_of_objects_only(config, wd) ==
  LET ms == IF is_global_config(wd) THEN JGet(config, "mcpServers")
            ELSE LET projects == JGet(config, "projects")
                     project == IF projects.some THEN JGet(projects.v, wd) ELSE None
                 IN IF project.some THEN JGet(project.v, "mcpServers") ELSE None
  IN IF ms.some /\ is_object(ms.v)
     THEN LET keys == SortedSeq({k \in DOMAIN ms.v.o : is_object(ms.v.o[k])})
          IN [i \in 1..Len(keys) |-> parse_server_config(keys[i], ms.v.o[keys[i]])]
     ELSE <<>>

\* Lines 57-83: the servers of the scope, in the Map's key order.
servers_of(config, wd) ==
  LET ms == IF is_global_config(wd) THEN JGet(config, "mcpServers")
            ELSE LET projects == JGet(config, "projects")
                     project == IF projects.some THEN JGet(projects.v, wd) ELSE None
                 IN IF project.some THEN JGet(project.v, "mcpServers") ELSE None
  IN IF ms.some /\ is_object(ms.v)
     THEN LET keys == SortedSeq(DOMAIN ms.v.o)
          IN [i \in 1..Len(keys) |-> parse_server_config(keys[i], ms.v.o[keys[i]])]
     ELSE <<>>

\* Mutant: a missing document is an error.
claude_mcp_list_strict(f, wd) ==
  LET p == get_claude_config_path(f, wd)
  IN IF ~p.ok THEN p
     ELSE IF ~exists(f, p.v) THEN Err(Msg("Claude config file not found"))
     ELSE LET rd == read_config(f, p.v)
          IN IF ~rd.ok THEN rd ELSE Ok(servers_of(rd.v, wd))

claude_mcp_list(f, wd) ==
  LET p == get_claude_config_path(f, wd)
  IN IF ~p.ok THEN p
     ELSE IF ~exists(f, p.v) THEN Ok(<<>>)
     ELSE LET rd == read_config(f, p.v)
          IN IF ~rd.ok THEN rd ELSE Ok(servers_of(rd.v, wd))

claude_mcp_get(f, name, wd) ==
  LET servers == claude_mcp_list(f, wd)
  IN IF ~servers.ok THEN servers
     ELSE LET hits == SelectSeq(servers.v, LAMBDA s : s.name = name)
          IN IF hits # <<>> THEN Ok(Head(hits))
             ELSE Err(MsgName("Server not found", name))

\* The faults a call may meet: whether create_backup's copy succeeds, how
\* fs::write ends, whether restore_backup's copy succeeds.  A call's outcome
\* names, in io, the steps among these it went through.
NoFault == [copied |-> TRUE, write |-> "ok", restored |-> TRUE]
Faults ==
  {NoFault, [copied |-> FALSE, write |-> "ok", restored |-> TRUE]}
  \cup [copied : {TRUE}, write : {"clean", "torn"}, restored : BOOLEAN]

\* The files, the backups and the result after claude_mcp_add.
claude_mcp_add(f, b, t, request, wd, fault) ==
  LET server_json == server_to_json(request)
      p == get_claude_config_path(f, wd)
  IN IF ~p.ok THEN [fs |-> f, bak |-> b, ret |-> p, io |-> {}]
     ELSE
     LET path == p.v
         had == exists(f, path)
         copy == IF had THEN {"copy"} ELSE {}
         bk == IF had THEN create_backup(f, b, t, path, fault.copied)
               ELSE [bak |-> b, res |-> Ok(<<path, t>>)]
         rd == IF had THEN read_config(f, path) ELSE Ok(EmptyObj)
     IN IF ~bk.res.ok THEN [fs |-> f, bak |-> b, ret |-> bk.res, io |-> copy]
        ELSE IF ~rd.ok THEN [fs |-> f, bak |-> bk.bak, ret |-> rd, io |-> copy]
        ELSE
        LET config == add_entry(rd.v, wd, request.name, server_json)
            w == fs_write(f, path, config, fault.write)
        IN IF config = Panic
           THEN [fs |-> f, bak |-> bk.bak, ret |-> Aborted, io |-> copy]
           ELSE IF ~w.ok
           THEN [fs |-> IF had
                        THEN restore_backup(w.fs, bk.bak, path, bk.res.v, fault.restored).fs
                        ELSE w.fs,
                 bak |-> bk.bak,
                 ret |-> Err(Msg("Failed to write Claude config")),
                 io |-> copy \cup {"write"} \cup (IF had THEN {"restore"} ELSE {})]
           ELSE [fs |-> w.fs,
                 bak |-> IF had THEN remove_file(bk.bak, bk.res.v) ELSE bk.bak,
                 ret |-> Ok(MsgScope("Server added to config successfully",
                                     request.name, scope_word(wd))),
                 io |-> copy \cup {"write"}]

\* The files, the backups and the result after claude_mcp_remove.
claude_mcp_remove(f, b, t, name, wd, fault) ==
  LET p == get_claude_config_path(f, wd)
  IN IF ~p.ok THEN [fs |-> f, bak |-> b, ret |-> p, io |-> {}]
     ELSE IF ~exists(f, p.v)
     THEN [fs |-> f, bak |-> b, ret |-> Err(Msg("Claude config file not found")),
           io |-> {}]
     ELSE
     LET path == p.v
         bk == create_backup(f, b, t, path, fault.copied)
         rd == read_config(f, path)
     IN IF ~bk.res.ok THEN [fs |-> f, bak |-> b, ret |-> bk.res, io |-> {"copy"}]
        ELSE IF ~rd.ok THEN [fs |-> f, bak |-> bk.bak, ret |-> rd, io |-> {"copy"}]
        ELSE
        LET rm == remove_entry(rd.v, wd, name)
            w == fs_write(f, path, rm.config, fault.write)
        IN IF ~rm.found
           THEN [fs |-> f,
                 bak |-> remove_file(bk.bak, bk.res.v),
                 ret |-> Err(MsgScope("Server not found in config", name, scope_word(wd))),
                 io |-> {"copy"}]
           ELSE IF ~w.ok
           THEN [fs |-> restore_backup(w.fs, bk.bak, path, bk.res.v, fault.restored).fs,
                 bak |-> bk.bak,
                 ret |-> Err(Msg("Failed to write Claude config")),
                 io |-> {"copy", "write", "restore"}]
           ELSE [fs |-> w.fs,
                 bak |-> remove_file(bk.bak, bk.res.v),
                 ret |-> Ok(MsgScope("Server removed from config successfully",
                                     name, scope_word(wd))),
                 io |-> {"copy", "write"}]

\* Lines 264-281: the project keys of a config file, none when it cannot be read.
get_projects_from_config(f, path) ==
  IF ~exists(f, path) THEN <<>>
  ELSE LET rd == read_config(f, path)
           projects == IF rd.ok THEN JGet(rd.v, "projects") ELSE None
       IN IF projects.some /\ is_object(projects.v)
          THEN SortedSeq(DOMAIN projects.v.o) ELSE <<>>

Range(s) == {s[i] : i \in DOMAIN s}

\* Mutant: the project paths of the two documents are listed one after the
\* other, neither merged nor sorted together.
claude_list_projects_appended(f) ==
  LET windows_path == get_windows_config_path
      wsl_path == get_wsl_config_path(f)
      globals == (IF windows_path.ok THEN <<GLOBAL_WINDOWS_ID>> ELSE <<>>)
                 \o (IF wsl_path.some THEN <<GLOBAL_WSL_ID>> ELSE <<>>)
  IN Ok(globals
        \o (IF windows_path.ok /\ exists(f, windows_path.v)
            THEN get_projects_from_config(f, windows_path.v) ELSE <<>>)
        \o (IF wsl_path.some THEN get_projects_from_config(f, wsl_path.v) ELSE <<>>))

claude_list_projects(f) ==
  LET windows_path == get_windows_config_path
      wsl_path == get_wsl_config_path(f)
      globals == (IF windows_path.ok THEN <<GLOBAL_WINDOWS_ID>> ELSE <<>>)
                 \o (IF wsl_path.some THEN <<GLOBAL_WSL_ID>> ELSE <<>>)
      all_project_paths ==
        (IF windows_path.ok /\ exists(f, windows_path.v)
         THEN Range(get_projects_from_config(f, windows_path.v)) ELSE {})
        \cup (IF wsl_path.some
              THEN Range(get_projects_from_config(f, wsl_path.v)) ELSE {})
  IN Ok(globals \o SortedSeq(all_project_paths))

(***************************************************************************)
(* The requests and the documents the model starts from.                   *)
(***************************************************************************)
SentryHttp ==
  Server("sentry", "http", Some("https://mcp.sentry.dev/mcp"), None, None, None)
SentryStdio ==
  Server("sentry", "stdio", None, Some("npx"), Some(<<"-y", "sentry-mcp">>),
         Some([SENTRY_TOKEN |-> "k"]))
Airtable ==
  Server("airtable", "stdio", None, Some("npx"), Some(<<"-y", "airtable-mcp-server">>),
         Some([AIRTABLE_API_KEY |-> "YOUR_KEY"]))

Requests == {SentryHttp, SentryStdio}

\* A document as the CLI writes it: entries of both scopes beside unrelated keys.
RichDoc ==
  JObj([mcpServers |-> JObj([airtable |-> server_to_json(Airtable),
                             sentry |-> JObj([type |-> JStr("sse"),
                                              url |-> JStr("https://old.example/sse")])]),
        projects |-> JObj(ProjLinux :> JObj([mcpServers |-> JObj([airtable |-> server_to_json(Airtable)]),
                                             allowedTools |-> JArr(<<>>)])
                          @@ ProjLinux2 :> JObj([mcpServers |-> EmptyObj])),
        numStartups |-> JNum])

\* Entries of the wrong shape, and a projects value that is no object.
OddEntriesDoc ==
  JObj([mcpServers |-> JObj([airtable |-> JStr("oops"),
                             sentry |-> JObj([type |-> JNum,
                                              url |-> JArr(<<>>),
                                              args |-> JArr(<<JStr("a"), JNum>>),
                                              env |-> JObj([A |-> JStr("1"), B |-> JNull])]),
                             zed |-> JObj([command |-> JNum,
                                           args |-> JStr("-y"),
                                           env |-> JArr(<<>>)])]),
        projects |-> JArr(<<>>)])

\* An mcpServers value and project values that are no objects.
OddShapeDoc ==
  JObj([mcpServers |-> JStr("x"),
        projects |-> JObj(ProjLinux :> JNull
                          @@ ProjWin :> JObj([mcpServers |-> JNum, history |-> JArr(<<>>)]))])

\* The document inside WSL: its project keys overlap those of RichDoc.
WslDoc ==
  JObj([mcpServers |-> JObj([sentry |-> server_to_json(SentryHttp)]),
        projects |-> JObj(ProjLinux :> JObj([mcpServers |-> EmptyObj])
                          @@ ProjWin :> EmptyObj)])

NativeInit ==
  {NoFile, Bytes, Text("garbage"), Json(JArr(<<>>)), Json(JNull), Json(EmptyObj),
   Json(RichDoc), Json(OddEntriesDoc), Json(OddShapeDoc)}

WslInit == {NoFile, Text("garbage"), Json(WslDoc)}

(***************************************************************************)
(* The state machine: one call per step, made when the caller holds no     *)
(* result.  last is the call that has just returned, with its result and,  *)
(* for add and remove, the documents as they were when it was made (pre);  *)
(* the caller then takes the result (Taken).  Calls on the same file are   *)
(* serialized by the caller: calls holds the calls under way when they are *)
(* not (see Race below), and none here.                                    *)
(***************************************************************************)
Init ==
  /\ windows \in BOOLEAN
  /\ home \in BOOLEAN
  /\ \E n \in NativeInit, w \in WslInit :
       \* Without a home directory there is no native document to speak of, and
       \* without WSL (cfg(not(windows))) no nested one.
       /\ ~home => n = NoFile
       /\ ~windows => w = NoFile
       /\ fs = [native |-> n, wsl |-> w]
  /\ bak = [bp \in BakPaths |-> NoFile]
  /\ now = 0
  /\ ops = 0
  /\ faults = 0
  /\ last = [op |-> "none"]
  /\ calls = <<>>
  /\ kept = {}

\* A fault happens at a step of the call: none is drawn for a step the call
\* does not go through.
Met(fault, io) ==
  /\ ~fault.copied => "copy" \in io
  /\ fault.write # "ok" => "write" \in io
  /\ ~fault.restored => "restore" \in io

\* No call is under way and no result is waiting to be taken.
AtRest == last.op = "none"

Budget(fault) ==
  /\ AtRest
  /\ ops < MaxOps
  /\ fault # NoFault => faults < MaxFaults
  /\ ops' = ops + 1
  /\ faults' = IF fault # NoFault THEN faults + 1 ELSE faults

\* A call for that name under the scope wd is a call for the entry k: same
\* name, and the same scope identifier or, both being global sentinels, what
\* may be the same user scope.
Targets(k, name, wd) ==
  /\ k.request.name = name
  /\ k.wd = wd \/ (is_global_config(k.wd) /\ is_global_config(wd))

\* kept records history, not a value of the program: the entries added by a
\* successful call that no call has been made for since, in a run of
\* successful calls (a failed call ends the run).
KeptAfter(ret, name, wd, added) ==
  IF ret.ok THEN {k \in kept : ~Targets(k, name, wd)} \cup added ELSE {}

Add(request, wd, fault) ==
  LET out == claude_mcp_add(fs, bak, now, request, wd, fault)
  IN /\ Budget(fault)
     /\ Met(fault, out.io)
     /\ fs' = out.fs
     /\ bak' = out.bak
     /\ last' = [op |-> "add", request |-> request, wd |-> wd, fault |-> fault,
                 pre |-> fs, prebak |-> bak, io |-> out.io, ret |-> out.ret]
     /\ kept' = KeptAfter(out.ret, request.name, wd, {[request |-> request, wd |-> wd]})
     /\ UNCHANGED <<windows, home, now, calls>>

Remove(name, wd, fault) ==
  LET out == claude_mcp_remove(fs, bak, now, name, wd, fault)
  IN /\ Budget(fault)
     /\ Met(fault, out.io)
     /\ fs' = out.fs
     /\ bak' = out.bak
     /\ last' = [op |-> "remove", name |-> name, wd |-> wd, fault |-> fault,
                 pre |-> fs, prebak |-> bak, io |-> out.io, ret |-> out.ret]
     /\ kept' = KeptAfter(out.ret, name, wd, {})
     /\ UNCHANGED <<windows, home, now, calls>>

List(wd) ==
  /\ AtRest
  /\ last' = [op |-> "list", wd |-> wd, pre |-> fs, prebak |-> bak,
              ret |-> claude_mcp_list(fs, wd)]
  /\ UNCHANGED <<windows, home, fs, bak, now, ops, faults, calls, kept>>

Get(name, wd) ==
  /\ AtRest
  /\ last' = [op |-> "get", name |-> name, wd |-> wd, pre |-> fs, prebak |-> bak,
              ret |-> claude_mcp_get(fs, name, wd)]
  /\ UNCHANGED <<windows, home, fs, bak, now, ops, faults, calls, kept>>

ListProjects ==
  /\ AtRest
  /\ last' = [op |-> "list_projects", ret |-> claude_list_projects(fs)]
  /\ UNCHANGED <<windows, home, fs, bak, now, ops, faults, calls, kept>>

\* A backup file named by the current second exists.  The clock is read only
\* to name backups (line 557), so only then does the next second differ from
\* this one.
Stamped == \E d \in Docs : bak[<<d, now>>] # NoFile

\* SystemTime::now() reaches the next second.
Tick ==
  /\ AtRest
  /\ Stamped
  /\ now < MaxTime
  /\ now' = now + 1
  /\ UNCHANGED <<windows, home, fs, bak, ops, faults, last, calls, kept>>

\* The caller takes the result of the call that returned.
Taken ==
  /\ ~AtRest
  /\ last' = [op |-> "none"]
  /\ UNCHANGED <<windows, home, fs, bak, now, ops, faults, calls, kept>>

Next ==
  \/ \E request \in Requests, wd \in WorkingDirs, fault \in Faults : Add(request, wd, fault)
  \/ \E name \in Names, wd \in WorkingDirs, fault \in Faults : Remove(name, wd, fault)
  \/ \E wd \in WorkingDirs : List(wd)
  \/ \E name \in Names, wd \in WorkingDirs : Get(name, wd)
  \/ ListProjects
  \/ Tick
  \/ Taken

Spec == Init /\ [][Next]_vars

(***************************************************************************)
(* Race: two calls of add or remove that the caller does not serialize.    *)
(* Each goes through the file-system steps of its code in order, and the   *)
(* steps of the two interleave: resolve the path (RBegin), back the file   *)
(* up (RBackup), read and change it in memory (RRead), write it (RWrite),  *)
(* then remove the backup or restore from it and return (RFinish).         *)
(***************************************************************************)
Procs == {1, 2}

RaceDirs == {GLOBAL_PROJECT_ID, ProjLinux}

RaceCalls ==
  [op : {"add"}, request : {SentryHttp, Airtable}, wd : RaceDirs]
  \cup [op : {"remove"}, name : Names, wd : RaceDirs]

Idle == [pc |-> "idle"]

RaceInit ==
  /\ windows \in BOOLEAN
  /\ home = TRUE
  /\ \E n \in {NoFile, Json(RichDoc)}, w \in {NoFile, Json(WslDoc)} :
       /\ ~windows => w = NoFile
       /\ fs = [native |-> n, wsl |-> w]
  /\ bak = [bp \in BakPaths |-> NoFile]
  /\ now = 0
  /\ ops = 0
  /\ faults = 0
  /\ last = [op |-> "none"]
  /\ calls = [p \in Procs |-> Idle]
  /\ kept = {}

\* The call returns.
Return(c, ret) == [c EXCEPT !.pc = "done", !.ret = ret]

\* Lines 110-111 and 183: the call is made and resolves its path.  overlap: the
\* other call was under way.
RBegin(p, call) ==
  LET path == get_claude_config_path(fs, call.wd)
      c == [pc |-> "backup", call |-> call, overlap |-> \E q \in Procs : calls[q].pc \notin {"idle", "done"},
            path |-> path, backup |-> None, config |-> JNull, found |-> TRUE,
            written |-> FALSE, ret |-> Ok("")]
  IN /\ calls[p] = Idle
     /\ calls' = [calls EXCEPT ![p] = IF path.ok THEN c ELSE Return(c, path)]
     /\ UNCHANGED <<windows, home, fs, bak, now, ops, faults, last, kept>>

\* Lines 113-118 and 185-190: the backup, of the file as it is now.
RBackup(p) ==
  LET c == calls[p]
      there == exists(fs, c.path.v)
      bk == create_backup(fs, bak, now, c.path.v, TRUE)
  IN /\ c.pc = "backup"
     /\ IF ~there
        THEN /\ calls' = [calls EXCEPT ![p] =
                            IF c.call.op = "add" THEN [c EXCEPT !.pc = "read"]
                            ELSE Return(c, Err(Msg("Claude config file not found")))]
             /\ bak' = bak
        ELSE /\ calls' = [calls EXCEPT ![p] = [c EXCEPT !.pc = "read", !.backup = Some(bk.res.v)]]
             /\ bak' = bk.bak
     /\ UNCHANGED <<windows, home, fs, now, ops, faults, last, kept>>

\* Lines 120-148 and 192-222: the file is read, as it is now, and the entry is
\* put into or taken out of the Value in memory.
RRead(p) ==
  LET c == calls[p]
      rd == IF c.call.op = "add" /\ ~exists(fs, c.path.v) THEN Ok(EmptyObj)
            ELSE read_config(fs, c.path.v)
      added == add_entry(rd.v, c.call.wd, c.call.request.name, server_to_json(c.call.request))
      rm == remove_entry(rd.v, c.call.wd, c.call.name)
  IN /\ c.pc = "read"
     /\ calls' = [calls EXCEPT ![p] =
          IF ~rd.ok THEN Return(c, rd)
          ELSE IF c.call.op = "add"
          THEN IF added = Panic THEN Return(c, Aborted)
               ELSE [c EXCEPT !.pc = "write", !.config = added]
          ELSE IF rm.found THEN [c EXCEPT !.pc = "write", !.config = rm.config]
               ELSE [c EXCEPT !.pc = "finish", !.found = FALSE]]
     /\ UNCHANGED <<windows, home, fs, bak, now, ops, faults, last, kept>>

\* Lines 150-154 and 224-228: fs::write.
RWrite(p, outcome) ==
  LET c == calls[p]
      w == fs_write(fs, c.path.v, c.config, outcome)
  IN /\ c.pc = "write"
     /\ outcome # "ok" => faults < MaxFaults
     /\ faults' = IF outcome # "ok" THEN faults + 1 ELSE faults
     /\ fs' = w.fs
     /\ calls' = [calls EXCEPT ![p] = [c EXCEPT !.pc = "finish", !.written = w.ok]]
     /\ UNCHANGED <<windows, home, bak, now, ops, last, kept>>

\* Lines 155-172 and 229-245: the backup is restored from after a failed write
\* and removed otherwise, and the call returns.
RFinish(p) ==
  LET c == calls[p]
      name == IF c.call.op = "add" THEN c.call.request.name ELSE c.call.name
      done == IF c.call.op = "add" THEN "Server added to config successfully"
              ELSE "Server removed from config successfully"
  IN /\ c.pc = "finish"
     /\ IF c.found /\ ~c.written
        THEN /\ fs' = IF c.backup.some
                      THEN restore_backup(fs, bak, c.path.v, c.backup.v, TRUE).fs ELSE fs
             /\ bak' = bak
             /\ calls' = [calls EXCEPT ![p] = Return(c, Err(Msg("Failed to write Claude config")))]
        ELSE /\ fs' = fs
             /\ bak' = IF c.backup.some THEN remove_file(bak, c.backup.v) ELSE bak
             /\ calls' = [calls EXCEPT ![p] =
                  Return(c, IF c.found
                            THEN Ok(MsgScope(done, name, scope_word(c.call.wd)))
                            ELSE Err(MsgScope("Server not found in config", name,
                                              scope_word(c.call.wd))))]
     /\ UNCHANGED <<windows, home, now, ops, faults, last, kept>>

\* SystemTime::now() reaches the next second.
RTick ==
  /\ Stamped
  /\ now < MaxTime
  /\ now' = now + 1
  /\ UNCHANGED <<windows, home, fs, bak, ops, faults, last, calls, kept>>

RaceNext ==
  \/ \E p \in Procs, call \in RaceCalls : RBegin(p, call)
  \/ \E p \in Procs : RBackup(p)
  \/ \E p \in Procs : RRead(p)
  \/ \E p \in Procs, outcome \in {"ok", "clean", "torn"} : RWrite(p, outcome)
  \/ \E p \in Procs : RFinish(p)
  \/ RTick

SpecRace == RaceInit /\ [][RaceNext]_vars

(***************************************************************************)
(* Properties.                                                             *)
(***************************************************************************)
Mutating == {"add", "remove"}

\* The call that returned last did return: it did not panic.
Returned == last.ret # Aborted

WriteFailed == Err(Msg("Failed to write Claude config"))

\* C1: when addServer(e, s) returns success, getServer(e.name, s) asked right
\* after it returns an entry with the name, kind, url, command, args and env of e.
C1_AddThenGet ==
  (last.op = "add" /\ last.ret.ok) =>
    LET got == claude_mcp_get(fs, last.request.name, last.wd)
    IN /\ got.ok
       /\ got.v.name = last.request.name
       /\ got.v.type = last.request.type
       /\ got.v.url = last.request.url
       /\ got.v.command = last.request.command
       /\ got.v.args = last.request.args
       /\ got.v.env = last.request.env

\* An entry with args and env was added to a project scope of the WSL document.
C1_Witness ==
  /\ last.op = "add"
  /\ last.ret.ok
  /\ last.request = SentryStdio
  /\ last.wd = ProjLinux
  /\ windows
  /\ claude_mcp_get(fs, "sentry", ProjLinux) = Ok(SentryStdio)

\* The paths C3 names: success, entry not found, read failure, parse failure of
\* the existing document, write failure followed by a restore.
C3_Path ==
  /\ last.op \in Mutating
  /\ Returned
  /\ \/ last.ret.ok
     \/ ~last.ret.ok /\ last.ret.err.msg \in {"Server not found in config",
                                              "Failed to read Claude config",
                                              "Failed to parse Claude config"}
     \/ last.ret = WriteFailed /\ "restore" \in last.io /\ last.fault.restored

\* C3: once addServer or removeServer has returned along one of these paths, no
\* backup file exists.
C3_NoBackupLeft == C3_Path => \A bp \in BakPaths : bak[bp] = NoFile

\* C6: when removeServer(n, s) returns success, getServer(n, s) asked right
\* after it fails with the not-found error.
C6_RemoveThenGet ==
  (last.op = "remove" /\ last.ret.ok) =>
    claude_mcp_get(fs, last.name, last.wd) = Err(MsgName("Server not found", last.name))

\* An entry was removed from a project scope that held it.
C6_Witness ==
  /\ last.op = "remove"
  /\ last.ret.ok
  /\ last.name = "airtable"
  /\ last.wd = ProjLinux

(***************************************************************************)
(* What the properties below speak of.                                     *)
(***************************************************************************)
\* The keys of a Value: none unless it is an object.
Keys(v) == IF is_object(v) THEN DOMAIN v.o ELSE {}

\* The document a scope resolved to when the last call was made.
Target == get_claude_config_path(last.pre, last.wd)

\* The Value the last call started from: the parsed document, {} without one.
Loaded == IF last.pre[Target.v].k = "json" THEN last.pre[Target.v].v ELSE EmptyObj

\* The scope of f holds an entry of that name.
Holds(f, name, wd) ==
  LET servers == claude_mcp_list(f, wd)
  IN servers.ok /\ \E i \in DOMAIN servers.v : servers.v[i].name = name

\* C2: in add and remove, when the backup was taken and the write then fails.
C2_Case ==
  /\ last.op \in Mutating
  /\ {"copy", "write"} \subseteq last.io
  /\ last.fault.write # "ok"

\* C2 as claimed: after a backup that succeeded and a write that failed, the
\* documents are what they were before the call and the call returns the write
\* error.
C2_Original == C2_Case => (fs = last.pre /\ last.ret = WriteFailed)

\* C2 (amended): after a backup that succeeded and a write that failed, the call
\* returns the write error, and when restore_backup's copy succeeds the
\* documents are what they were before the call.
C2_RestoredOnWriteFailure ==
  C2_Case => /\ last.ret = WriteFailed
             /\ last.fault.restored => fs = last.pre

\* A torn write of a remove was undone by the restore.
C2_Witness ==
  /\ C2_Case
  /\ last.op = "remove"
  /\ last.fault.write = "torn"
  /\ last.fault.restored
  /\ fs = last.pre

\* The content a call leaves when it is fully applied.
Applied ==
  IF last.op = "add"
  THEN Json(add_entry(Loaded, last.wd, last.request.name, server_to_json(last.request)))
  ELSE Json(remove_entry(Loaded, last.wd, last.name).config)

\* C4: after add or remove has returned, its write not having been torn, every
\* document holds what it held before the call, or the target holds the fully
\* applied content.
C4_PreOrPost ==
  (last.op \in Mutating /\ Returned /\ last.fault.write # "torn") =>
    \A d \in Docs :
      \/ fs[d] = last.pre[d]
      \/ Target.ok /\ d = Target.v /\ fs[d] = Applied

\* A write to the WSL document failed before touching it and the backup was
\* copied back.
C4_Witness ==
  /\ last.op \in Mutating
  /\ last.fault.write = "clean"
  /\ "restore" \in last.io
  /\ last.fault.restored
  /\ Target.v = "wsl"
  /\ fs.wsl # fs.native

\* What a map held before and holds after, but for one key.
SameBut(old, new, k) ==
  /\ Keys(new) = Keys(old) \cup {k}
  /\ \A j \in Keys(old) \ {k} : new.o[j] = old.o[j]

\* C5: a successful add leaves the other document alone and, in the target,
\* every other top-level key, every other project, every sibling key of the
\* project and every other entry of the scope's map as they were, the map
\* holding the new entry.
C5_AddFrame ==
  (last.op = "add" /\ last.ret.ok) =>
    LET new == fs[Target.v].v
        json == server_to_json(last.request)
        name == last.request.name
    IN /\ \A d \in Docs \ {Target.v} : fs[d] = last.pre[d]
       /\ fs[Target.v].k = "json"
       /\ IF is_global_config(last.wd)
          THEN /\ SameBut(Loaded, new, "mcpServers")
               /\ SameBut(JIndex(Loaded, "mcpServers"), JIndex(new, "mcpServers"), name)
               /\ JIndex(JIndex(new, "mcpServers"), name) = json
          ELSE LET oldp == JIndex(JIndex(Loaded, "projects"), last.wd)
                   newp == JIndex(JIndex(new, "projects"), last.wd)
               IN /\ SameBut(Loaded, new, "projects")
                  /\ SameBut(JIndex(Loaded, "projects"), JIndex(new, "projects"), last.wd)
                  /\ SameBut(oldp, newp, "mcpServers")
                  /\ SameBut(JIndex(oldp, "mcpServers"), JIndex(newp, "mcpServers"), name)
                  /\ JIndex(JIndex(newp, "mcpServers"), name) = json

\* An entry was added to a project that held another entry and a sibling key,
\* beside another project and an unrelated top-level key.
C5_Witness ==
  /\ last.op = "add"
  /\ last.ret.ok
  /\ last.wd = ProjLinux
  /\ last.pre[Target.v] = Json(RichDoc)

\* C7: when the scope already holds an entry of the request's name and no I/O
\* step fails, add succeeds, the scope then lists exactly one entry of that
\* name, which is the request, and as many entries as before.
C7_Upsert ==
  (last.op = "add" /\ last.fault = NoFault
   /\ Holds(last.pre, last.request.name, last.wd)) =>
    LET before == claude_mcp_list(last.pre, last.wd)
        after == claude_mcp_list(fs, last.wd)
    IN /\ last.ret.ok
       /\ after.ok
       /\ Len(after.v) = Len(before.v)
       /\ \E i \in DOMAIN after.v :
            /\ after.v[i] = last.request
            /\ \A j \in DOMAIN after.v : after.v[j].name = last.request.name => j = i

\* An http entry replaced an entry of another kind of the same name.
C7_Witness ==
  /\ last.op = "add"
  /\ last.ret.ok
  /\ last.request = SentryHttp
  /\ Holds(last.pre, "sentry", last.wd)
  /\ claude_mcp_get(last.pre, "sentry", last.wd) # Ok(SentryHttp)

\* The project keys a document shows: those of its projects object, none when
\* it is absent, unreadable or of another shape.
ProjectKeys(content) ==
  IF content.k = "json" THEN Keys(JIndex(content.v, "projects")) ELSE {}

\* A nested document is discoverable.
Discoverable == windows /\ fs.wsl # NoFile

\* What C8 says of a result of listScopes: the native sentinel, then the nested
\* sentinel exactly when a nested document is discoverable, then the project
\* keys of the discovered documents in ascending order, no string twice.
C8_Shape(result) ==
  LET globals == <<GLOBAL_WINDOWS_ID>>
                 \o (IF Discoverable THEN <<GLOBAL_WSL_ID>> ELSE <<>>)
      keys == ProjectKeys(fs.native)
              \cup (IF Discoverable THEN ProjectKeys(fs.wsl) ELSE {})
      g == Len(globals)
      r == result.v
  IN /\ result.ok
     /\ Len(r) = g + Cardinality(keys)
     /\ SubSeq(r, 1, g) = globals
     /\ {r[i] : i \in (g + 1)..Len(r)} = keys
     /\ \A i, j \in (g + 1)..Len(r) : i < j => StrRank(r[i]) < StrRank(r[j])
     /\ \A i, j \in DOMAIN r : i # j => r[i] # r[j]

\* C8: in every state of the files listScopes returns a sequence of that shape.
\* The states of the files are those of a machine whose home directory can be
\* determined: without one there is no native path, and get_windows_config_path
\* failing leaves the native sentinel out (line 291).
C8_ListScopes == home => C8_Shape(claude_list_projects(fs))

\* listScopes was asked with both documents there, sharing a project key.
C8_Witness ==
  /\ last.op = "list_projects"
  /\ home
  /\ Discoverable
  /\ ProjectKeys(fs.native) \cap ProjectKeys(fs.wsl) # {}
  /\ ProjectKeys(fs.native) # ProjectKeys(fs.wsl)
  /\ Len(last.ret.v) > Cardinality(ProjectKeys(fs.native)) + 2

NotFoundInUser(name) == Err(MsgScope("Server not found in config", name, "user"))

IoErrors ==
  {Err(Msg("Failed to read Claude config")), Err(Msg("Failed to parse Claude config")),
   Err(Msg("Failed to create backup")), WriteFailed}

\* C9: remove under "Global" of a name the global scope does not hold.
C9_Case ==
  /\ last.op = "remove"
  /\ last.wd = GLOBAL_PROJECT_ID
  /\ ~Holds(last.pre, last.name, GLOBAL_PROJECT_ID)

\* C9 as claimed: in every such case the call returns the not-found error that
\* names the scope "user", which is none of the I/O errors.
C9_Original == C9_Case => (last.ret = NotFoundInUser(last.name) /\ last.ret \notin IoErrors)

\* C9 (amended): in every such case in which the document "Global" resolves to
\* exists, is valid JSON and is backed up, the call returns the not-found error
\* that names the scope "user", which is none of the I/O errors.
C9_NotFoundNamesUser ==
  (C9_Case /\ Target.ok /\ last.pre[Target.v].k = "json" /\ last.fault.copied) =>
    (last.ret = NotFoundInUser(last.name) /\ last.ret \notin IoErrors)

\* "airtable" was removed under "Global" from a document that holds other
\* entries but not that one.
C9_Witness ==
  /\ C9_Case
  /\ last.name = "airtable"
  /\ Holds(last.pre, "sentry", GLOBAL_PROJECT_ID)
  /\ last.ret = NotFoundInUser("airtable")

ReadErrors ==
  {Err(Msg("Failed to read Claude config")), Err(Msg("Failed to parse Claude config"))}

\* The document the scope resolves to is absent, or holds no project object or
\* no mcpServers map for the scope.
ScopeAbsent(f, wd) ==
  LET p == get_claude_config_path(f, wd)
  IN /\ p.ok
     /\ \/ f[p.v].k = "none"
        \/ /\ f[p.v].k = "json"
           /\ IF is_global_config(wd) THEN "mcpServers" \notin Keys(f[p.v].v)
              ELSE "mcpServers" \notin Keys(JIndex(JIndex(f[p.v].v, "projects"), wd))

\* C10 as claimed: for every scope identifier listServers returns the empty
\* sequence when the document, the project object or the map is absent, and
\* an error only when the document cannot be read or parsed.
C10_Original ==
  \A wd \in WorkingDirs :
    LET r == claude_mcp_list(fs, wd)
    IN /\ ScopeAbsent(fs, wd) => r = Ok(<<>>)
       /\ ~r.ok => r \in ReadErrors

\* C10 (amended): for every scope identifier listServers returns the empty
\* sequence when the document the scope resolves to, the project object or the
\* map is absent; it returns an error only when that document cannot be read or
\* parsed, when the nested global sentinel is asked for and no nested document
\* is discoverable, or when the home directory cannot be determined.
C10_ListErrors ==
  \A wd \in WorkingDirs :
    LET r == claude_mcp_list(fs, wd)
        p == get_claude_config_path(fs, wd)
    IN /\ ScopeAbsent(fs, wd) => r = Ok(<<>>)
       /\ ~r.ok =>
            \/ r \in ReadErrors /\ p.ok /\ fs[p.v].k \in {"bytes", "text"}
            \/ /\ wd = GLOBAL_WSL_ID
               /\ ~Discoverable
               /\ r \in {Err(Msg("WSL Claude config not found")),
                         Err(Msg("WSL is only available on Windows"))}
            \/ ~home /\ r = Err(Msg("Unable to find home directory"))
       /\ (wd = GLOBAL_WSL_ID /\ ~Discoverable) => ~r.ok

\* listServers was asked for a project the existing document does not hold.
C10_Witness ==
  /\ last.op = "list"
  /\ last.wd = ProjWin
  /\ last.ret = Ok(<<>>)
  /\ fs.native = Json(RichDoc)
  /\ get_claude_config_path(fs, ProjWin) = Ok("native")

(***************************************************************************)
(* Resolution of a scope to a document.                                    *)
(***************************************************************************)
ProjectPaths == {wd \in WorkingDirs : wd \notin {GLOBAL_WINDOWS_ID, GLOBAL_WSL_ID, GLOBAL_PROJECT_ID}}

\* The other document.
Other(path) == IF path = "native" THEN "wsl" ELSE "native"

\* C11: with a home directory, a project path starting with '/' resolves to the
\* nested document when the platform has a nested environment and a nested
\* document is discoverable, and to the native document otherwise; any other
\* project path, and every project path on a platform without a nested
\* environment, resolves to the native document, whether that file exists or not.
C11_ProjectResolution ==
  \A wd \in ProjectPaths :
    IF windows /\ FirstChar(wd) = "/" /\ Discoverable
    THEN get_claude_config_path(fs, wd) = Ok("wsl")
    ELSE home => get_claude_config_path(fs, wd) = Ok("native")

\* On Windows, with both documents there, an entry was added under
\* "/home/u/proj": the nested document took it and the native one did not.
C11_Witness ==
  /\ windows /\ home
  /\ last.op = "add" /\ last.wd = ProjLinux /\ last.ret.ok
  /\ last.pre.native # NoFile /\ last.pre.wsl # NoFile
  /\ fs.wsl # last.pre.wsl
  /\ fs.native = last.pre.native
  /\ Holds(fs, last.request.name, ProjLinux)

\* C12 as stated: the native global scope and the legacy global sentinel resolve
\* to the native home-directory path in every state of the files.
C12_Original ==
  home => /\ get_claude_config_path(fs, GLOBAL_WINDOWS_ID) = Ok("native")
          /\ get_claude_config_path(fs, GLOBAL_PROJECT_ID) = Ok("native")

\* C12: with a home directory, the native global scope resolves to the native
\* home-directory path in every state of the files, also when that file does not
\* exist and a nested document is discoverable; the legacy global sentinel
\* resolves to it exactly when the native file exists or no nested document is
\* discoverable, and to the nested document otherwise.
C12_NativeGlobal ==
  home => /\ get_claude_config_path(fs, GLOBAL_WINDOWS_ID) = Ok("native")
          /\ get_claude_config_path(fs, GLOBAL_PROJECT_ID) =
               IF fs.native # NoFile \/ ~Discoverable THEN Ok("native") ELSE Ok("wsl")

\* With no native file and a nested document discoverable, an add under
\* "Global (Windows)" created the native file and one under "Global" would
\* have gone to the nested document.
C12_Witness ==
  /\ home /\ Discoverable
  /\ last.op = "add" /\ last.wd = GLOBAL_WINDOWS_ID /\ last.ret.ok
  /\ last.pre.native = NoFile
  /\ fs.native # NoFile /\ fs.wsl = last.pre.wsl
  /\ get_claude_config_path(last.pre, GLOBAL_PROJECT_ID) = Ok("wsl")

(***************************************************************************)
(* Failures.                                                               *)
(***************************************************************************)
\* C13: every call of listServers, getServer, addServer and removeServer
\* returns a result, whatever the documents hold: none aborts.
C13_NeverAborts ==
  last.op \in {"list", "get", "add", "remove"} => last.ret # Aborted

(***************************************************************************)
(* The first add: no document yet.                                         *)
(***************************************************************************)
\* The document the scope of the last add resolved to did not exist, and the
\* write of the call does not fail.
C14_Case ==
  /\ last.op = "add"
  /\ Target.ok
  /\ last.pre[Target.v] = NoFile
  /\ last.fault.write = "ok"

\* The Value holds, in the scope wd, the one entry of that name and nothing
\* beside it at any level.
OnlyEntry(v, wd, name) ==
  IF is_global_config(wd)
  THEN /\ Keys(v) = {"mcpServers"}
       /\ Keys(JIndex(v, "mcpServers")) = {name}
  ELSE /\ Keys(v) = {"projects"}
       /\ Keys(JIndex(v, "projects")) = {wd}
       /\ Keys(JIndex(JIndex(v, "projects"), wd)) = {"mcpServers"}
       /\ Keys(JIndex(JIndex(JIndex(v, "projects"), wd), "mcpServers")) = {name}

\* C14: when the resolved document does not exist (and the write does not
\* fail), addServer(e, s) takes no backup, succeeds and leaves a document that
\* holds the entry e in scope s and nothing else, so that listServers(s) returns
\* exactly e, with every field the request left out absent.
C14_FirstAdd ==
  C14_Case =>
    /\ last.ret.ok
    /\ "copy" \notin last.io
    /\ bak = last.prebak
    /\ fs[Other(Target.v)] = last.pre[Other(Target.v)]
    /\ fs[Target.v].k = "json"
    /\ OnlyEntry(fs[Target.v].v, last.wd, last.request.name)
    /\ claude_mcp_list(fs, last.wd) = Ok(<<last.request>>)

\* On an empty store the http entry "sentry" was added under "Global".
C14_Witness ==
  /\ C14_Case
  /\ last.pre = [native |-> NoFile, wsl |-> NoFile]
  /\ last.wd = GLOBAL_PROJECT_ID
  /\ last.request = SentryHttp
  /\ claude_mcp_list(fs, GLOBAL_PROJECT_ID) =
       Ok(<<Server("sentry", "http", Some("https://mcp.sentry.dev/mcp"), None, None, None)>>)

(***************************************************************************)
(* One call, one document.                                                 *)
(***************************************************************************)
\* C15: an addServer or removeServer call changes at most the document its
\* scope resolved to: whatever its outcome, the other document (and both, when
\* the scope resolved to none) has the content it had before the call.
C15_OneDocument ==
  last.op \in Mutating =>
    \A d \in Docs : (~Target.ok \/ d # Target.v) => fs[d] = last.pre[d]

\* Both documents existed and the call changed the one its scope resolved to.
C15_Witness ==
  /\ last.op \in Mutating
  /\ last.pre.native # NoFile /\ last.pre.wsl # NoFile
  /\ Target.ok
  /\ fs[Target.v] # last.pre[Target.v]
  /\ fs[Other(Target.v)] = last.pre[Other(Target.v)]

(***************************************************************************)
(* The nested global sentinel on a platform without a nested environment.  *)
(***************************************************************************)
\* C16: on a platform without a nested environment, listServers, getServer,
\* addServer and removeServer called with the nested global sentinel return
\* an error, and no document and no backup file is created or changed.
C16_NoNestedScope ==
  (~windows /\ last.op \in {"list", "get", "add", "remove"} /\ last.wd = GLOBAL_WSL_ID) =>
    /\ ~last.ret.ok
    /\ last.ret = Err(Msg("WSL is only available on Windows"))
    /\ fs = last.pre
    /\ bak = last.prebak

\* Off Windows, with a native document there, an add under "Global (WSL)"
\* returned.
C16_Witness ==
  /\ ~windows /\ home
  /\ last.op = "add" /\ last.wd = GLOBAL_WSL_ID
  /\ last.pre.native = Json(RichDoc)
  /\ ~last.ret.ok

(***************************************************************************)
(* Two calls on one document (SpecRace).                                   *)
(***************************************************************************)
RaceName(c) == IF c.call.op = "add" THEN c.call.request.name ELSE c.call.name

\* The call returned success.
Succeeded(p) == calls[p].pc = "done" /\ calls[p].ret.ok

\* The effect of the call is there: the scope returns the entry added, or
\* holds no entry of the name removed.
Effect(p) ==
  LET c == calls[p]
  IN IF c.call.op = "add"
     THEN claude_mcp_get(fs, c.call.request.name, c.call.wd) = Ok(c.call.request)
     ELSE ~Holds(fs, c.call.name, c.call.wd)

\* Both calls returned success, on the same document path, for two different
\* entries (another name or another scope).
BothSucceeded ==
  /\ Succeeded(1) /\ Succeeded(2)
  /\ calls[1].path = calls[2].path
  /\ <<RaceName(calls[1]), calls[1].call.wd>> # <<RaceName(calls[2]), calls[2].call.wd>>

\* Neither call was made while the other was under way.
Serialized == ~calls[1].overlap /\ ~calls[2].overlap

\* C17: when two mutating calls on the same document path are serialized and
\* both return success, the effects of both are in the document.  (Calls that
\* are not serialized can lose one: C17_Witness.)
C17_SerializedKeepsBoth ==
  (BothSucceeded /\ Serialized) => (Effect(1) /\ Effect(2))

\* The calls were not serialized, both returned success, and the document
\* lacks the effect of one of them.
C17_Witness ==
  /\ BothSucceeded
  /\ ~Serialized
  /\ ~(Effect(1) /\ Effect(2))

(***************************************************************************)
(* The fallback of the resolution.                                         *)
(***************************************************************************)
\* The scopes for which no platform branch of the resolution is taken: the
\* legacy sentinel, every project path off Windows, and on Windows a project
\* path starting with '/' when no nested document is discoverable.
FallbackScopes ==
  {GLOBAL_PROJECT_ID}
  \cup {wd \in ProjectPaths : ~windows \/ (FirstChar(wd) = "/" /\ ~Discoverable)}

\* C18: with a home directory, the legacy global sentinel and every scope for
\* which no platform branch is taken resolve to the native document if it
\* exists; otherwise to the nested document if one is discoverable; otherwise
\* to the native path, which does not exist.
C18_Fallback ==
  home =>
    \A wd \in FallbackScopes :
      get_claude_config_path(fs, wd) =
        IF fs.native # NoFile THEN Ok("native")
        ELSE IF Discoverable THEN Ok("wsl")
        ELSE Ok("native")

\* With no native file, an entry added under "Global" went to the nested
\* document, and the native file still does not exist.
C18_Witness ==
  /\ home /\ Discoverable
  /\ last.op = "add" /\ last.wd = GLOBAL_PROJECT_ID /\ last.ret.ok
  /\ last.pre.native = NoFile
  /\ fs.native = NoFile
  /\ fs.wsl # last.pre.wsl

(***************************************************************************)
(* Removing an entry that is not there.                                    *)
(***************************************************************************)
\* The document of the last remove existed and was valid JSON, its scope held
\* no entry of the name, and the backup copy succeeded.
C19_Case ==
  /\ last.op = "remove"
  /\ Target.ok
  /\ last.pre[Target.v].k = "json"
  /\ ~Holds(last.pre, last.name, last.wd)
  /\ last.fault.copied

\* C19: when removeServer(n, s) finds the document but no entry n in scope s,
\* it takes a backup, writes nothing and returns the not-found error: the
\* documents are as before the call, the backup of this call is gone when it
\* returns and every other backup file is as it was.
C19_NotFoundCleansUp ==
  C19_Case =>
    /\ last.ret = Err(MsgScope("Server not found in config", last.name,
                               IF last.wd \in ProjectPaths THEN "project" ELSE "user"))
    /\ "copy" \in last.io
    /\ "write" \notin last.io
    /\ fs = last.pre
    /\ bak[<<Target.v, now>>] = NoFile
    /\ \A bp \in BakPaths : bp # <<Target.v, now>> => bak[bp] = last.prebak[bp]

\* A remove of "sentry" under the project scope "/home/u/proj" of the native
\* document, which holds only "airtable".
C19_Witness ==
  /\ C19_Case
  /\ last.pre.native = Json(RichDoc)
  /\ last.wd = ProjLinux /\ last.name = "sentry"
  /\ Target = Ok("native")
  /\ ~last.ret.ok

(***************************************************************************)
(* Reading entries of any shape.                                           *)
(***************************************************************************)
\* The value stored under the scope's mcpServers key (Null without one).
ScopeMap(v, wd) ==
  IF wd \in ProjectPaths
  THEN JIndex(JIndex(JIndex(v, "projects"), wd), "mcpServers")
  ELSE JIndex(v, "mcpServers")

\* The string stored under key k of the entry value e, if there is one.
StrField(e, k) ==
  IF JIndex(e, k).t = "str" THEN Some(JIndex(e, k).s) ELSE None

\* What C20 says of the entry s read from the stored value e.
ReadsAs(s, e) ==
  LET args == JIndex(e, "args")
      env == JIndex(e, "env")
  IN /\ s.type = (IF StrField(e, "type").some THEN StrField(e, "type").v ELSE "stdio")
     /\ s.url = StrField(e, "url")
     /\ s.command = StrField(e, "command")
     /\ IF args.t = "arr"
        THEN /\ s.args.some
             /\ LET strs == SelectSeq(args.a, LAMBDA x : x.t = "str")
                IN /\ Len(s.args.v) = Len(strs)
                   /\ \A i \in DOMAIN strs : s.args.v[i] = strs[i].s
        ELSE s.args = None
     /\ IF env.t = "obj"
        THEN /\ s.env.some
             /\ DOMAIN s.env.v = {k \in DOMAIN env.o : env.o[k].t = "str"}
             /\ \A k \in DOMAIN s.env.v : s.env.v[k] = env.o[k].s
        ELSE s.env = None

\* C20: whenever a scope resolves to a document that is valid JSON and holds a
\* map of entries, listServers succeeds and returns one entry per key of the
\* map, whatever the values are; of each value a missing or non-string kind
\* reads as "stdio", a url or command that is no string, args that are no array
\* and an env that is no object read as absent, and of an args array and an env
\* object the string elements are kept.
C20_BestEffortRead ==
  \A wd \in WorkingDirs :
    LET p == get_claude_config_path(fs, wd)
        m == ScopeMap(fs[p.v].v, wd)
        got == claude_mcp_list(fs, wd)
    IN (p.ok /\ fs[p.v].k = "json" /\ is_object(m)) =>
         /\ got.ok
         /\ Len(got.v) = Cardinality(DOMAIN m.o)
         /\ \A k \in DOMAIN m.o :
              \E i \in DOMAIN got.v : got.v[i].name = k /\ ReadsAs(got.v[i], m.o[k])

\* The user scope of a document with a string, an entry of wrong-shaped
\* fields and another one for entries was listed: all three were returned.
C20_Witness ==
  /\ last.op = "list" /\ last.wd = GLOBAL_WINDOWS_ID
  /\ fs.native = Json(OddEntriesDoc)
  /\ last.ret.ok
  /\ Len(last.ret.v) = 3
  /\ last.ret.v[1] = Server("airtable", "stdio", None, None, None, None)
  /\ last.ret.v[2] = Server("sentry", "stdio", None, None, Some(<<"a">>), Some([A |-> "1"]))
  /\ last.ret.v[3] = Server("zed", "stdio", None, None, None, None)

(***************************************************************************)
(* Entries across calls for other entries.                                 *)
(***************************************************************************)
\* C21: after addServer(e, s) succeeded, and whatever successful addServer and
\* removeServer calls for other entries followed, getServer(e.name, s) returns e.
C21_StaysVisible ==
  \A k \in kept : claude_mcp_get(fs, k.request.name, k.wd) = Ok(k.request)

====
